---- MODULE Spec2Model ----
(***************************************************************************)
(* Miss Belle clinic application: the appointment agenda and the cash      *)
(* register, as client sessions issuing requests against the datastore     *)
(* (tables, uniqueness constraints and row-level-security policies).       *)
(*                                                                         *)
(* Every `await supabase...` of the client is one atomic request executed  *)
(* by the datastore; the client code between two awaits runs with it.      *)
(* Money is counted in cents.                                              *)
(***************************************************************************)
EXTENDS Integers, Sequences, FiniteSets, TLC

\* ------------------------------------------------------------------ bounds
MaxDate == 1          \* dates are 1..MaxDate
MaxTime == 2          \* times of day are 1..MaxTime
MaxInflight == 1      \* checkConflict requests in flight per session
MaxAppointments == 2  \* appointments rows
MaxTransactions == 2  \* cash_register_transactions rows
MaxAmount == 1        \* amounts typed into the form, in cents
MaxStamp == 2         \* client clock readings used for finalized_at
MaxEmail == 2         \* e-mail addresses typed into the user forms
MaxRows == 2          \* rows stored by the requests sent past the forms
MaxCents == 5         \* amounts of the rows being summed, in cents
MaxTerms == 3         \* rows being summed
MaxLoads == 1         \* loadProfile requests in flight
MaxProcedures == 6    \* procedures that completed appointments refer to
MaxCompleted == 6     \* completed appointments of the period

Dates == 1..MaxDate
Times == 1..MaxTime
Amounts == 0..MaxAmount
Stamps == 1..MaxStamp
Emails == 1..MaxEmail

\* useState('09:00') of the appointment form
DefaultTime == 1

\* ------------------------------------------------------- identities, sessions
UserIds == {"A", "B", "S"}

\* The professionals chosen in the forms
Professionals == {"A", "B"}

\* Browser sessions and the identity each is signed in with (useAuth().user).
Sessions == {"a1", "a2", "b1", "s1"}
AgendaSessions == {"a1", "s1"}  \* a professional and the super admin
CashSessions == {"a1", "s1"}    \* the owner of a closing and the super admin
OwnerSessions == {"a1", "a2"}   \* two tabs of one professional
SignUpSessions == {"a1", "b1", "s1"} \* three visitors of the login page
ApiSessions == {"a1", "b1", "s1"}    \* two professionals and the super admin

SessionUser(s) ==
    CASE s = "a1" -> "A"
      [] s = "a2" -> "A"
      [] s = "b1" -> "B"
      [] OTHER -> "S"

VARIABLES
    profiles,        \* table profiles: rows [id, role]
    appointments,    \* table appointments
    closings,        \* table cash_register_closings
    transactions,    \* table cash_register_transactions
    modal,           \* per session: CreateAppointmentModal state
    checks,          \* per session: checkConflict requests in flight
    detail,          \* per session: appointment shown by AppointmentDetailsModal
    selectedClosing, \* per session: closing shown by TransactionsModal
    txList,          \* per session: TransactionsModal `transactions`
    txLoading,       \* per session: TransactionsModal `loading`
    op,              \* per session: cash-register handler in progress
    last,            \* per session: how the last cash-register handler ended
    users,           \* auth.users: rows [id, email]
    reg,             \* per session: signUp / user-form handler in progress
    procedures,      \* table procedures
    patients,        \* table patients
    api,             \* the last request sent to the tables and its answer
    calc,            \* a total being summed by a cash-register handler
    auth,            \* AuthProvider state of one browser: user, session, profile, loading
    client,          \* supabase.auth of that browser: session, notifications due
    loads,           \* loadProfile requests of that browser in flight
    form,            \* Login.handleSubmit and signOut of that browser
    route,           \* RouterProvider currentRoute of that browser
    dash             \* Dashboard: completed appointments read, topProcedures

vars == <<profiles, appointments, closings, transactions, modal, checks, detail,
          selectedClosing, txList, txLoading, op, last, users, reg, procedures,
          patients, api, calc, auth, client, loads, form, route, dash>>

agendaVars == <<appointments, modal, checks, detail>>
cashVars == <<closings, transactions, selectedClosing, txList, txLoading, op, last>>
userVars == <<users, reg>>
apiVars == <<procedures, patients, api>>
authVars == <<auth, client, loads, form, route>>
otherVars == <<calc, authVars, dash>>

\* What a step of the agenda, and a step of the cash register, leaves alone
notAgenda == <<profiles, cashVars, userVars, apiVars, otherVars>>
notCash == <<profiles, agendaVars, userVars, apiVars, otherVars>>

\* ------------------------------------------------------------------ helpers
Max(S) == CHOOSE x \in S : \A y \in S : y <= x

\* gen_random_uuid(): an id no row of the table has
NewId(rows) == 1 + Max({r.id : r \in rows} \cup {0})

\* EXISTS (SELECT 1 FROM profiles WHERE id = auth.uid() AND role = 'super_admin')
IsSuperAdminUid(uid) ==
    \E p \in profiles : p.id = uid /\ p.role = "super_admin"

\* AuthContext: isSuperAdmin = profile?.role === 'super_admin'
isSuperAdmin(s) == IsSuperAdminUid(SessionUser(s))

\* No request has been sent
NoRequest == [caller |-> "", table |-> "", kind |-> "none", seen |-> {}, accepted |-> FALSE]

\* ======================================================================
\*  Appointments: storage rules
\* ======================================================================

Statuses == {"scheduled", "confirmed", "completed", "cancelled"}

\* A select policy open to every authenticated caller
RlsAppointmentSelectAll(uid, row) == TRUE

\* policies "Users can view own appointments", "Super admins can view all appointments"
RlsAppointmentSelect(uid, row) ==
    row.professional_id = uid \/ IsSuperAdminUid(uid)

\* policies "Users can create own appointments", "Super admins can create any appointment"
RlsAppointmentInsert(uid, row) ==
    \/ row.professional_id = uid /\ row.created_by = uid
    \/ IsSuperAdminUid(uid)

\* policies "Users can update own appointments", "Super admins can update any appointment"
RlsAppointmentUpdate(uid, row) ==
    row.professional_id = uid \/ IsSuperAdminUid(uid)

\* A uniqueness constraint over (appointment_date, appointment_time) alone:
\* one calendar shared by every professional
AppointmentUniqueGlobal(rows, row) ==
    \E a \in rows :
        /\ a.appointment_date = row.appointment_date
        /\ a.appointment_time = row.appointment_time

\* A uniqueness constraint that leaves cancelled rows out: a partial index
\* WHERE status <> 'cancelled'
AppointmentUniqueActive(rows, row) ==
    \E a \in rows :
        /\ a.professional_id = row.professional_id
        /\ a.appointment_date = row.appointment_date
        /\ a.appointment_time = row.appointment_time
        /\ a.status # "cancelled"

\* UNIQUE (professional_id, appointment_date, appointment_time): would inserting
\* row violate it
AppointmentUniqueViolation(rows, row) ==
    \E a \in rows :
        /\ a.professional_id = row.professional_id
        /\ a.appointment_date = row.appointment_date
        /\ a.appointment_time = row.appointment_time

\* checkConflict's query: rows of the triple with status <> 'cancelled', as the
\* caller may see them
ConflictRows(uid, p, d, t) ==
    {a \in appointments :
        /\ RlsAppointmentSelect(uid, a)
        /\ a.professional_id = p
        /\ a.appointment_date = d
        /\ a.appointment_time = t
        /\ a.status # "cancelled"}

\* (data || []).length > 0
PreCheckConflict(uid, p, d, t) == ConflictRows(uid, p, d, t) # {}

\* The row handleSubmit inserts
NewAppointment(s, m) ==
    [id |-> NewId(appointments),
     professional_id |-> m.professionalId,
     appointment_date |-> m.appointmentDate,
     appointment_time |-> m.appointmentTime,
     status |-> "scheduled",
     created_by |-> SessionUser(s)]

\* The columns of a stored appointment that are read back
StoredAppointment(row) ==
    [id |-> row.id, professional_id |-> row.professional_id,
     appointment_date |-> row.appointment_date,
     appointment_time |-> row.appointment_time, status |-> row.status]

\* Does the datastore accept the insert
InsertAppointmentAccepted(uid, row) ==
    /\ RlsAppointmentInsert(uid, row)
    /\ ~AppointmentUniqueViolation(appointments, row)

\* update({status}).eq('id', id): the table after the request
UpdateAppointmentStatus(uid, id, newStatus) ==
    {IF a.id = id /\ RlsAppointmentSelect(uid, a) /\ RlsAppointmentUpdate(uid, a)
        THEN [a EXCEPT !.status = newStatus]
        ELSE a : a \in appointments}

\* The status buttons AppointmentDetailsModal renders for the status it shows
StatusButtons(status) ==
    (IF status \notin {"confirmed", "completed", "cancelled"} THEN {"confirmed"} ELSE {})
    \cup (IF status \notin {"completed", "cancelled"} THEN {"completed"} ELSE {})
    \cup (IF status \notin {"cancelled", "completed"} THEN {"cancelled"} ELSE {})

\* ======================================================================
\*  Appointments: client
\* ======================================================================

ClosedModal ==
    [open |-> FALSE, professionalId |-> "",
     appointmentDate |-> 0, appointmentTime |-> 0,
     conflict |-> FALSE, loading |-> FALSE, outcome |-> "none",
     checked |-> <<"", 0, 0>>]

NoAppointment == [id |-> 0, status |-> ""]

\* defaultProfessionalId = selectedProfessional || user.id ; the professional
\* filter is rendered for a super admin only
DefaultProfessionals(s) ==
    IF isSuperAdmin(s) THEN {p.id : p \in profiles} ELSE {SessionUser(s)}

\* The request checkConflict sends for the fields of m
CheckRequest(m) ==
    [professionalId |-> m.professionalId, appointmentDate |-> m.appointmentDate,
     appointmentTime |-> m.appointmentTime, res |-> "sent"]

\* "Novo Agendamento": CreateAppointmentModal is mounted on the agenda's
\* professional and date, and a patient and a procedure are chosen; with every
\* field set the useEffect runs checkConflict
OpenCreateModal(s, p, d) ==
    /\ ~modal[s].open
    /\ detail[s].id = 0
    /\ p \in DefaultProfessionals(s)
    /\ LET m == [open |-> TRUE, professionalId |-> p,
                 appointmentDate |-> d, appointmentTime |-> DefaultTime,
                 conflict |-> FALSE, loading |-> FALSE, outcome |-> "none",
                 checked |-> <<"", 0, 0>>]
       IN /\ modal' = [modal EXCEPT ![s] = m]
          /\ checks' = [checks EXCEPT ![s] = {CheckRequest(m)}]
    /\ UNCHANGED <<appointments, detail>>
    /\ UNCHANGED notAgenda

\* A slot field changes: the useEffect runs checkConflict again
ChangeSlot(s, p, d, t) ==
    /\ modal[s].open /\ ~modal[s].loading
    /\ p = modal[s].professionalId \/ isSuperAdmin(s)
    /\ <<p, d, t>> # <<modal[s].professionalId, modal[s].appointmentDate,
                       modal[s].appointmentTime>>
    /\ LET m == [modal[s] EXCEPT !.professionalId = p, !.appointmentDate = d,
                                 !.appointmentTime = t]
       IN /\ modal' = [modal EXCEPT ![s] = m]
          /\ Cardinality(checks[s] \cup {CheckRequest(m)}) <= MaxInflight
          /\ checks' = [checks EXCEPT ![s] = @ \cup {CheckRequest(m)}]
    /\ UNCHANGED <<appointments, detail>>
    /\ UNCHANGED notAgenda

\* The datastore answers a checkConflict query
CheckConflictQuery(s, c) ==
    /\ c \in checks[s] /\ c.res = "sent"
    /\ LET r == IF PreCheckConflict(SessionUser(s), c.professionalId,
                                    c.appointmentDate, c.appointmentTime)
                   THEN "conflict" ELSE "free"
       IN checks' = [checks EXCEPT ![s] = (@ \ {c}) \cup {[c EXCEPT !.res = r]}]
    /\ UNCHANGED <<appointments, modal, detail>>
    /\ UNCHANGED notAgenda

\* The answer arrives: setConflict((data || []).length > 0)
CheckConflictReturn(s, c) ==
    /\ c \in checks[s] /\ c.res # "sent"
    /\ checks' = [checks EXCEPT ![s] = @ \ {c}]
    /\ modal' = [modal EXCEPT ![s].conflict = (c.res = "conflict"),
                              ![s].checked = <<c.professionalId, c.appointmentDate,
                                               c.appointmentTime>>]
    /\ UNCHANGED <<appointments, detail>>
    /\ UNCHANGED notAgenda

\* handleSubmit up to its await
HandleSubmit(s) ==
    /\ modal[s].open /\ ~modal[s].loading
    /\ IF modal[s].conflict
          THEN modal' = [modal EXCEPT ![s].outcome = "conflict"]
          ELSE modal' = [modal EXCEPT ![s].outcome = "none", ![s].loading = TRUE]
    /\ UNCHANGED <<appointments, checks, detail>>
    /\ UNCHANGED notAgenda

\* The insert of handleSubmit and what follows it
InsertAppointment(s) ==
    /\ modal[s].open /\ modal[s].loading
    /\ LET row == NewAppointment(s, modal[s])
       IN IF InsertAppointmentAccepted(SessionUser(s), row)
             THEN /\ Cardinality(appointments) < MaxAppointments
                  /\ appointments' = appointments \cup {StoredAppointment(row)}
                  /\ modal' = [modal EXCEPT ![s] = [ClosedModal EXCEPT !.outcome = "ok"]]
                  /\ checks' = [checks EXCEPT ![s] = {}]
             ELSE /\ appointments' = appointments
                  /\ modal' = [modal EXCEPT ![s].outcome = "error", ![s].loading = FALSE]
                  /\ checks' = checks
    /\ UNCHANGED detail
    /\ UNCHANGED notAgenda

\* "Cancelar" of the form
CloseCreateModal(s) ==
    /\ modal[s].open /\ ~modal[s].loading
    /\ modal' = [modal EXCEPT ![s] = ClosedModal]
    /\ checks' = [checks EXCEPT ![s] = {}]
    /\ UNCHANGED <<appointments, detail>>
    /\ UNCHANGED notAgenda

\* loadAppointments: the rows the agenda of s lists
VisibleAppointments(s) ==
    {a \in appointments :
        /\ RlsAppointmentSelect(SessionUser(s), a)
        /\ isSuperAdmin(s) \/ a.professional_id = SessionUser(s)}

\* The agenda is loaded and a card clicked: the modal shows that row
OpenDetails(s, a) ==
    /\ ~modal[s].open
    /\ detail[s].id = 0
    /\ a \in VisibleAppointments(s)
    /\ detail' = [detail EXCEPT ![s] = [id |-> a.id, status |-> a.status]]
    /\ UNCHANGED <<appointments, modal, checks>>
    /\ UNCHANGED notAgenda

\* updateStatus(newStatus), from a button the modal renders
UpdateStatus(s, newStatus) ==
    /\ detail[s].id # 0
    /\ newStatus \in StatusButtons(detail[s].status)
    /\ appointments' = UpdateAppointmentStatus(SessionUser(s), detail[s].id, newStatus)
    /\ detail' = [detail EXCEPT ![s] = NoAppointment]
    /\ UNCHANGED <<modal, checks>>
    /\ UNCHANGED notAgenda

CloseDetails(s) ==
    /\ detail[s].id # 0
    /\ detail' = [detail EXCEPT ![s] = NoAppointment]
    /\ UNCHANGED <<appointments, modal, checks>>
    /\ UNCHANGED notAgenda

\* ======================================================================
\*  Cash register: storage rules
\* ======================================================================

\* policies "Users can view own closings", "Super admins can view all closings"
RlsClosingSelect(uid, row) ==
    row.professional_id = uid \/ IsSuperAdminUid(uid)

\* policy "Users can create own closings" (the only INSERT policy of the table)
RlsClosingInsert(uid, row) == row.professional_id = uid

\* policies "Users can update own non-finalized closings" and "Super admins can
\* update any closing": USING, on the stored row
RlsClosingUpdateUsing(uid, row) ==
    \/ row.professional_id = uid /\ row.is_finalized = FALSE
    \/ IsSuperAdminUid(uid)

\* the same policies: WITH CHECK, on the row as updated
RlsClosingUpdateCheck(uid, row) ==
    row.professional_id = uid \/ IsSuperAdminUid(uid)

\* policies "Users can view own transactions", "Super admins can view all transactions"
RlsTransactionSelect(uid, row) ==
    \/ \E c \in closings : c.id = row.closing_id /\ c.professional_id = uid
    \/ IsSuperAdminUid(uid)

\* policies "Users can create own transactions", "Super admins can create any transaction"
RlsTransactionInsert(uid, row) ==
    \/ \E c \in closings :
          c.id = row.closing_id /\ c.professional_id = uid /\ c.is_finalized = FALSE
    \/ IsSuperAdminUid(uid)

\* cash_register_transactions has row-level security enabled and no policy FOR
\* DELETE (nor FOR ALL): no row is visible to a DELETE
RlsTransactionDelete(uid, row) == FALSE

\* The table without its uniqueness constraint
ClosingUniqueNone(rows, row) == FALSE

\* UNIQUE (professional_id, closing_date): would inserting row violate it
ClosingUniqueViolation(rows, row) ==
    \E c \in rows :
        c.professional_id = row.professional_id /\ c.closing_date = row.closing_date

\* An insert that stamps finalized_at with the day of the closing
NewClosingStamped(uid, today) ==
    [id |-> NewId(closings), professional_id |-> uid, closing_date |-> today,
     total_amount |-> 0, is_finalized |-> FALSE, finalized_at |-> today]

\* The row createClosing inserts; is_finalized and finalized_at take the
\* column defaults (false, null: written 0)
NewClosing(uid, today) ==
    [id |-> NewId(closings), professional_id |-> uid, closing_date |-> today,
     total_amount |-> 0, is_finalized |-> FALSE, finalized_at |-> 0]

InsertClosingAccepted(uid, row) ==
    /\ RlsClosingInsert(uid, row)
    /\ ~ClosingUniqueViolation(closings, row)

\* An update that writes back the row as the modal holds it, with the new total
TotalPatchFromSnapshot(row, snapshot, total) ==
    [row EXCEPT !.total_amount = total, !.is_finalized = snapshot.is_finalized]

\* update({ total_amount: total })
TotalPatch(row, snapshot, total) == [row EXCEPT !.total_amount = total]

\* update({ is_finalized: true, finalized_at: new Date().toISOString() })
FinalizePatch(row, ts) == [row EXCEPT !.is_finalized = TRUE, !.finalized_at = ts]

\* Rows of cash_register_closings an UPDATE ... WHERE id = id by uid reaches
ClosingUpdatable(uid, row, id) ==
    row.id = id /\ RlsClosingSelect(uid, row) /\ RlsClosingUpdateUsing(uid, row)

\* .update({ total_amount }).eq('id', id): the table after the request
UpdateClosingTotal(uid, id, snapshot, total) ==
    {IF ClosingUpdatable(uid, c, id) /\ RlsClosingUpdateCheck(uid, TotalPatch(c, snapshot, total))
        THEN TotalPatch(c, snapshot, total) ELSE c : c \in closings}

\* .update({ is_finalized, finalized_at }).eq('id', id): the table after the request
UpdateClosingFinalize(uid, id, ts) ==
    {IF ClosingUpdatable(uid, c, id) /\ RlsClosingUpdateCheck(uid, FinalizePatch(c, ts))
        THEN FinalizePatch(c, ts) ELSE c : c \in closings}

\* A transactions table without the CHECK on amount
AmountCheckNone(row) == TRUE

\* amount numeric(10, 2) NOT NULL CHECK (amount >= 0)
AmountCheck(row) == row.amount >= 0

InsertTransactionAccepted(uid, row) ==
    /\ RlsTransactionInsert(uid, row)
    /\ AmountCheck(row)
    /\ \E c \in closings : c.id = row.closing_id

\* .delete().eq('id', id): the table after the request
DeleteTransactionRows(uid, id) ==
    {t \in transactions :
        ~(t.id = id /\ RlsTransactionSelect(uid, t) /\ RlsTransactionDelete(uid, t))}

\* select ... .eq('closing_id', id): the rows the caller gets
VisibleTransactions(uid, id) ==
    {t \in transactions : t.closing_id = id /\ RlsTransactionSelect(uid, t)}

RECURSIVE SumAmounts(_)
\* reduce((sum, t) => sum + t.amount, 0) over a set of rows
SumAmounts(rows) ==
    IF rows = {} THEN 0
    ELSE LET r == CHOOSE x \in rows : TRUE
         IN r.amount + SumAmounts(rows \ {r})

RECURSIVE SumSeq(_)
\* reduce((sum, t) => sum + t.amount, 0) over a loaded list
SumSeq(list) ==
    IF list = <<>> THEN 0 ELSE Head(list).amount + SumSeq(Tail(list))

RECURSIVE NewestFirst(_)
\* .order('created_at', { ascending: false }): rows are created in id order
NewestFirst(rows) ==
    IF rows = {} THEN <<>>
    ELSE LET r == CHOOSE x \in rows : \A y \in rows : y.id <= x.id
         IN <<[id |-> r.id, amount |-> r.amount]>> \o NewestFirst(rows \ {r})

\* transactions.filter((t) => t.id !== id)
FilterOut(list, id) == SelectSeq(list, LAMBDA t : t.id # id)

\* AddTransactionModal.handleSubmit:
\* (transactions || []).reduce(...) + parseFloat(amount)
AddTotal(read, amount) == read + amount

\* updateTotal: transactions.filter((t) => t.id !== transactions[0]?.id).reduce(...)
UpdateTotalValue(list) ==
    IF list = <<>> THEN 0 ELSE SumSeq(FilterOut(list, Head(list).id))

\* ======================================================================
\*  Cash register: client
\* ======================================================================

NoClosing == [id |-> 0, professional_id |-> "", is_finalized |-> FALSE]

Idle == [pc |-> "idle", closing_date |-> 0, amount |-> 0, total |-> 0]

NoOutcome ==
    [kind |-> "none", outcome |-> "none", closing_date |-> 0, closing_id |-> 0,
     onFinalized |-> FALSE]

\* What a handler that ended reports: outcome is "ok", or the branch that
\* refused ("exists": the alert of createClosing; "error": the catch block);
\* onFinalized tells whether the closing was stored finalized when the
\* handler's request ran
Outcome(kind, outcome, date, id, fin) ==
    [kind |-> kind, outcome |-> outcome, closing_date |-> date, closing_id |-> id,
     onFinalized |-> fin]

DbFinalized(id) == \E c \in closings : c.id = id /\ c.is_finalized

\* The closing prop of TransactionsModal, made from a stored row
Snapshot(c) ==
    [id |-> c.id, professional_id |-> c.professional_id, is_finalized |-> c.is_finalized]

\* loadClosings: the rows the page of s lists
VisibleClosings(s) ==
    {c \in closings :
        /\ RlsClosingSelect(SessionUser(s), c)
        /\ isSuperAdmin(s) \/ c.professional_id = SessionUser(s)}

\* createClosing up to its insert: the existence query (maybeSingle)
CreateClosingQuery(s, today) ==
    /\ ~isSuperAdmin(s)
    /\ selectedClosing[s].id = 0
    /\ op[s].pc = "idle"
    /\ LET existing == {c \in closings :
                          /\ RlsClosingSelect(SessionUser(s), c)
                          /\ c.professional_id = SessionUser(s)
                          /\ c.closing_date = today}
       IN IF existing # {}
             THEN /\ last' = [last EXCEPT ![s] =
                        Outcome("create", "exists", today, 0, FALSE)]
                  /\ op' = op
             ELSE /\ op' = [op EXCEPT ![s] =
                        [Idle EXCEPT !.pc = "cc_insert", !.closing_date = today]]
                  /\ last' = [last EXCEPT ![s] = NoOutcome]
    /\ UNCHANGED <<closings, transactions, selectedClosing, txList, txLoading>>
    /\ UNCHANGED notCash

\* createClosing: the insert and what follows it
CreateClosingInsert(s) ==
    /\ op[s].pc = "cc_insert"
    /\ LET row == NewClosing(SessionUser(s), op[s].closing_date)
       IN IF InsertClosingAccepted(SessionUser(s), row)
             THEN /\ closings' = closings \cup {row}
                  /\ selectedClosing' = [selectedClosing EXCEPT ![s] = Snapshot(row)]
                  /\ txList' = [txList EXCEPT ![s] = <<>>]
                  /\ txLoading' = [txLoading EXCEPT ![s] = TRUE]
                  /\ last' = [last EXCEPT ![s] =
                        Outcome("create", "ok", row.closing_date, row.id, FALSE)]
             ELSE /\ last' = [last EXCEPT ![s] =
                        Outcome("create", "error", row.closing_date, 0, FALSE)]
                  /\ UNCHANGED <<closings, selectedClosing, txList, txLoading>>
    /\ op' = [op EXCEPT ![s] = Idle]
    /\ UNCHANGED transactions
    /\ UNCHANGED notCash

\* A card of the loaded list is clicked: openClosing mounts TransactionsModal
OpenClosing(s, c) ==
    /\ selectedClosing[s].id = 0
    /\ op[s].pc = "idle"
    /\ c \in VisibleClosings(s)
    /\ selectedClosing' = [selectedClosing EXCEPT ![s] = Snapshot(c)]
    /\ txList' = [txList EXCEPT ![s] = <<>>]
    /\ txLoading' = [txLoading EXCEPT ![s] = TRUE]
    /\ UNCHANGED <<closings, transactions, op, last>>
    /\ UNCHANGED notCash

\* loadTransactions: the query answers
LoadTransactions(s) ==
    /\ selectedClosing[s].id # 0
    /\ txLoading[s]
    /\ txList' = [txList EXCEPT ![s] =
            NewestFirst(VisibleTransactions(SessionUser(s), selectedClosing[s].id))]
    /\ txLoading' = [txLoading EXCEPT ![s] = FALSE]
    /\ UNCHANGED <<closings, transactions, selectedClosing, op, last>>
    /\ UNCHANGED notCash

\* onClose of TransactionsModal
CloseTransactions(s) ==
    /\ selectedClosing[s].id # 0
    /\ op[s].pc = "idle"
    /\ selectedClosing' = [selectedClosing EXCEPT ![s] = NoClosing]
    /\ txList' = [txList EXCEPT ![s] = <<>>]
    /\ txLoading' = [txLoading EXCEPT ![s] = FALSE]
    /\ UNCHANGED <<closings, transactions, op, last>>
    /\ UNCHANGED notCash

\* AddTransactionModal.handleSubmit: the insert
AddInsert(s, amount) ==
    /\ selectedClosing[s].id # 0
    /\ ~selectedClosing[s].is_finalized
    /\ op[s].pc = "idle"
    /\ Cardinality(transactions) < MaxTransactions
    /\ LET row == [id |-> NewId(transactions), closing_id |-> selectedClosing[s].id,
                   amount |-> amount]
           fin == DbFinalized(selectedClosing[s].id)
       IN IF InsertTransactionAccepted(SessionUser(s), row)
             THEN /\ transactions' = transactions \cup {row}
                  /\ op' = [op EXCEPT ![s] = [Idle EXCEPT !.pc = "add_select",
                                                          !.amount = amount]]
                  /\ last' = [last EXCEPT ![s] =
                        Outcome("add", "none", 0, row.closing_id, fin)]
             ELSE /\ transactions' = transactions
                  /\ op' = op
                  /\ last' = [last EXCEPT ![s] =
                        Outcome("add", "error", 0, row.closing_id, fin)]
    /\ UNCHANGED <<closings, selectedClosing, txList, txLoading>>
    /\ UNCHANGED notCash

\* AddTransactionModal.handleSubmit: the amounts are read back and summed
AddSelect(s) ==
    /\ op[s].pc = "add_select"
    /\ op' = [op EXCEPT ![s].pc = "add_update",
                        ![s].total = AddTotal(
                            SumAmounts(VisibleTransactions(SessionUser(s),
                                                           selectedClosing[s].id)),
                            op[s].amount)]
    /\ UNCHANGED <<closings, transactions, selectedClosing, txList, txLoading, last>>
    /\ UNCHANGED notCash

\* AddTransactionModal.handleSubmit: total_amount is written; onSuccess
AddUpdate(s) ==
    /\ op[s].pc = "add_update"
    /\ closings' = UpdateClosingTotal(SessionUser(s), selectedClosing[s].id,
                                      selectedClosing[s], op[s].total)
    /\ op' = [op EXCEPT ![s] = Idle]
    /\ txLoading' = [txLoading EXCEPT ![s] = TRUE]
    /\ last' = [last EXCEPT ![s].outcome = "ok"]
    /\ UNCHANGED <<transactions, selectedClosing, txList>>
    /\ UNCHANGED notCash

\* deleteTransaction: the delete request (the list renders once loaded, the
\* bin button while the closing shows as open)
DeleteTransaction(s, i) ==
    /\ selectedClosing[s].id # 0
    /\ ~selectedClosing[s].is_finalized
    /\ ~txLoading[s]
    /\ op[s].pc = "idle"
    /\ i \in 1..Len(txList[s])
    /\ transactions' = DeleteTransactionRows(SessionUser(s), txList[s][i].id)
    /\ op' = [op EXCEPT ![s] = [Idle EXCEPT !.pc = "del_update"]]
    /\ last' = [last EXCEPT ![s] =
            Outcome("delete", "none", 0, selectedClosing[s].id,
                    DbFinalized(selectedClosing[s].id))]
    /\ UNCHANGED <<closings, selectedClosing, txList, txLoading>>
    /\ UNCHANGED notCash

\* deleteTransaction: await updateTotal(), then loadTransactions()
UpdateTotal(s) ==
    /\ op[s].pc = "del_update"
    /\ closings' = UpdateClosingTotal(SessionUser(s), selectedClosing[s].id,
                                      selectedClosing[s],
                                      UpdateTotalValue(txList[s]))
    /\ op' = [op EXCEPT ![s] = Idle]
    /\ txLoading' = [txLoading EXCEPT ![s] = TRUE]
    /\ last' = [last EXCEPT ![s].outcome = "ok"]
    /\ UNCHANGED <<transactions, selectedClosing, txList>>
    /\ UNCHANGED notCash

\* finalizeClosing: the update, then onUpdate() and onClose()
FinalizeClosing(s, ts) ==
    /\ selectedClosing[s].id # 0
    /\ ~selectedClosing[s].is_finalized
    /\ op[s].pc = "idle"
    /\ closings' = UpdateClosingFinalize(SessionUser(s), selectedClosing[s].id, ts)
    /\ last' = [last EXCEPT ![s] =
            Outcome("finalize", "ok", 0, selectedClosing[s].id,
                    DbFinalized(selectedClosing[s].id))]
    /\ selectedClosing' = [selectedClosing EXCEPT ![s] = NoClosing]
    /\ txList' = [txList EXCEPT ![s] = <<>>]
    /\ txLoading' = [txLoading EXCEPT ![s] = FALSE]
    /\ UNCHANGED <<transactions, op>>
    /\ UNCHANGED notCash

\* ======================================================================
\*  Authentication: the state of one browser
\* ======================================================================
\* The browser whose AuthProvider is followed, used by the visitor B
Browser == "b1"

\* useState<Profile | null>(null)
NoProfile == [id |-> "", email |-> 0, role |-> ""]

\* A loadProfile(userId) whose request is sent, with the token of the session
\* the browser holds
Load(userId, token) ==
    [userId |-> userId, token |-> token, pc |-> "sent", data |-> NoProfile]

\* The callback given to onAuthStateChange, which supabase.auth runs when it
\* establishes, refreshes or ends the browser's session
AuthStateChange(session) ==
    IF session # ""
       THEN /\ auth' = [auth EXCEPT !.session = session, !.user = session]
            /\ loads' = loads \cup {Load(session, session)}
       ELSE /\ auth' = [auth EXCEPT !.session = "", !.user = "",
                                    !.profile = NoProfile, !.loading = FALSE]
            /\ loads' = loads

\* supabase.auth.signUp of AuthContext.signUp in the followed browser: an
\* answer that carries a session signs the browser in
SignUpSession(s, email, session, taken) ==
    IF s = Browser /\ session /\ ~taken
       THEN /\ client' = [client EXCEPT !.session = SessionUser(s)]
            /\ AuthStateChange(SessionUser(s))
            /\ UNCHANGED <<form, route>>
       ELSE UNCHANGED authVars

\* await loadProfile(authData.user.id) of AuthContext.signUp
SignUpLoad(s, inserted) ==
    IF s = Browser /\ inserted
       THEN /\ loads' = loads \cup {Load(reg[s].id, client.session)}
            /\ UNCHANGED <<auth, client, form, route>>
       ELSE UNCHANGED authVars

\* ======================================================================
\*  Users: identities and profiles
\* ======================================================================

Roles == {"super_admin", "user"}

\* policy "Enable read access for authenticated users" (TO authenticated,
\* USING true): a request without a session sees no row
RlsProfileSelect(authenticated) == authenticated

\* policy "Enable insert during signup" (TO anon, authenticated, WITH CHECK true)
RlsProfileInsert(row) == TRUE

\* policy "Enable update for own profile"
RlsProfileUpdate(uid, row) == row.id = uid

\* id uuid PRIMARY KEY, email text UNIQUE: would inserting row violate them
ProfileUniqueViolation(rows, row) ==
    \E p \in rows : p.id = row.id \/ p.email = row.email

\* id ... REFERENCES auth.users(id)
ProfileForeignKey(row) == \E u \in users : u.id = row.id

InsertProfileAccepted(row) ==
    /\ RlsProfileInsert(row)
    /\ ProfileForeignKey(row)
    /\ row.role \in Roles
    /\ ~ProfileUniqueViolation(profiles, row)

\* supabase.auth.signUp refuses an email that an identity already has
AuthEmailTaken(email) == \E u \in users : u.email = email

\* select('*', { count: 'exact', head: true }) on profiles
CountProfiles(authenticated) ==
    Cardinality({p \in profiles : RlsProfileSelect(authenticated)})

\* role: isFirstUser ? 'super_admin' : 'user', with isFirstUser = (count === 0)
RoleForCount(count) == IF count = 0 THEN "super_admin" ELSE "user"

NoReg ==
    [pc |-> "idle", kind |-> "none", id |-> "", email |-> 0, role |-> "",
     session |-> FALSE, outcome |-> "none"]

\* Ids of the identities
UserIdsUsed == {u.id : u \in users}

\* AuthContext.signUp: supabase.auth.signUp. The identity created for the
\* visitor of session s is the one s is then signed in with; session tells
\* whether the answer carries a session (email confirmation off) or none.
SignUpAuth(s, email, session) ==
    /\ reg[s].pc = "idle"
    /\ SessionUser(s) \notin UserIdsUsed
    /\ IF AuthEmailTaken(email)
          THEN /\ reg' = [reg EXCEPT ![s] =
                      [NoReg EXCEPT !.kind = "signup", !.email = email,
                                    !.outcome = "error"]]
               /\ users' = users
          ELSE /\ users' = users \cup {[id |-> SessionUser(s), email |-> email]}
               /\ reg' = [reg EXCEPT ![s] =
                      [NoReg EXCEPT !.pc = "su_count", !.kind = "signup",
                                    !.id = SessionUser(s), !.email = email,
                                    !.session = session]]
    /\ SignUpSession(s, email, session, AuthEmailTaken(email))
    /\ UNCHANGED <<profiles, agendaVars, cashVars, apiVars, calc, dash>>

\* AuthContext.signUp: the count of the profiles, isFirstUser
SignUpCount(s) ==
    /\ reg[s].pc = "su_count"
    /\ reg' = [reg EXCEPT ![s].pc = "su_insert",
                          ![s].role = RoleForCount(CountProfiles(reg[s].session))]
    /\ UNCHANGED <<profiles, users, agendaVars, cashVars, apiVars, otherVars>>

\* The insert of the profile row, common to signUp and CreateUserModal
InsertProfile(s) ==
    LET row == [id |-> reg[s].id, email |-> reg[s].email, role |-> reg[s].role]
    IN IF InsertProfileAccepted(row)
          THEN /\ profiles' = profiles \cup {row}
               /\ reg' = [reg EXCEPT ![s].pc = "idle", ![s].outcome = "ok"]
          ELSE /\ profiles' = profiles
               /\ reg' = [reg EXCEPT ![s].pc = "idle", ![s].outcome = "error"]

\* AuthContext.signUp: the profile insert and the return
SignUpInsert(s) ==
    /\ reg[s].pc = "su_insert"
    /\ InsertProfile(s)
    /\ SignUpLoad(s, profiles' # profiles)
    /\ UNCHANGED <<users, agendaVars, cashVars, apiVars, calc, dash>>

\* CreateUserModal.handleSubmit (page of the super admin): supabase.auth.signUp
CreateUserAuth(s, id, email, role) ==
    /\ reg[s].pc = "idle"
    /\ isSuperAdmin(s)
    /\ id \notin UserIdsUsed
    /\ IF AuthEmailTaken(email)
          THEN /\ reg' = [reg EXCEPT ![s] =
                      [NoReg EXCEPT !.kind = "create", !.email = email,
                                    !.outcome = "error"]]
               /\ users' = users
          ELSE /\ users' = users \cup {[id |-> id, email |-> email]}
               /\ reg' = [reg EXCEPT ![s] =
                      [NoReg EXCEPT !.pc = "cu_insert", !.kind = "create",
                                    !.id = id, !.email = email, !.role = role]]
    /\ UNCHANGED <<profiles, agendaVars, cashVars, apiVars, otherVars>>

\* CreateUserModal.handleSubmit: the profile insert
CreateUserInsert(s) ==
    /\ reg[s].pc = "cu_insert"
    /\ InsertProfile(s)
    /\ UNCHANGED <<users, agendaVars, cashVars, apiVars, otherVars>>

\* EditUserModal.handleSubmit: update of the profile row, then
\* supabase.auth.admin.updateUserById, which the client built with the anon
\* key is refused; that refusal is only logged, so auth.users keeps its email
EditUser(s, target, email, role) ==
    /\ reg[s].pc = "idle"
    /\ isSuperAdmin(s)
    /\ \E p \in profiles : p.id = target
    /\ LET uid == SessionUser(s)
           reach == {p \in profiles :
                        /\ p.id = target
                        /\ RlsProfileSelect(TRUE)
                        /\ RlsProfileUpdate(uid, p)}
           clash == \E p \in reach : \E q \in profiles \ {p} : q.email = email
       IN IF clash
             THEN /\ profiles' = profiles
                  /\ reg' = [reg EXCEPT ![s] =
                         [NoReg EXCEPT !.kind = "edit", !.id = target,
                                       !.email = email, !.role = role,
                                       !.outcome = "error"]]
             ELSE /\ profiles' = (profiles \ reach) \cup
                         {[p EXCEPT !.email = email, !.role = role] : p \in reach}
                  /\ reg' = [reg EXCEPT ![s] =
                         [NoReg EXCEPT !.kind = "edit", !.id = target,
                                       !.email = email, !.role = role,
                                       !.outcome = "ok"]]
    /\ UNCHANGED <<users, agendaVars, cashVars, apiVars, otherVars>>

\* ======================================================================
\*  Requests under row-level security
\*  Each action is one request of the client, sent with the caller's token
\*  and with any value in the fields the caller controls.
\* ======================================================================

\* policies "Users can view own patients", "Super admins can view all patients"
RlsPatientSelect(uid, row) ==
    row.professional_id = uid \/ IsSuperAdminUid(uid)

\* policies "Users can create own patients", "Super admins can create any patient"
RlsPatientInsert(uid, row) ==
    row.professional_id = uid \/ IsSuperAdminUid(uid)

\* policies "Users can update own patients", "Super admins can update any patient"
RlsPatientUpdate(uid, row) ==
    row.professional_id = uid \/ IsSuperAdminUid(uid)

\* A policy open to every authenticated caller
RlsProcedureWriteAny(uid) == TRUE

\* policy "Super admins can manage procedures" (FOR ALL; its USING expression
\* also checks the rows written)
RlsProcedureWrite(uid) == IsSuperAdminUid(uid)

\* The answer to a request
Request(uid, table, kind, seen, accepted) ==
    [caller |-> uid, table |-> table, kind |-> kind, seen |-> seen,
     accepted |-> accepted]

\* Owners of a set of rows
Owners(rows) == {r.professional_id : r \in rows}

\* Rows stored in the tables of this section
RowCount ==
    Cardinality(appointments) + Cardinality(closings) + Cardinality(patients)
        + Cardinality(procedures)

\* select on appointments (loadAppointments without its client-side filter)
SelectAppointments(s) ==
    /\ api' = Request(SessionUser(s), "appointments", "select",
                      Owners({a \in appointments :
                                 RlsAppointmentSelect(SessionUser(s), a)}), TRUE)
    /\ UNCHANGED <<profiles, agendaVars, cashVars, userVars, otherVars, procedures, patients>>

\* insert into appointments (the request of CreateAppointmentModal.handleSubmit)
InsertAppointmentRequest(s, p, d, t) ==
    /\ RowCount < MaxRows
    /\ LET row == NewAppointment(s, [professionalId |-> p, appointmentDate |-> d,
                                     appointmentTime |-> t])
           ok == InsertAppointmentAccepted(SessionUser(s), row)
       IN /\ appointments' = IF ok THEN appointments \cup {StoredAppointment(row)}
                                    ELSE appointments
          /\ api' = Request(SessionUser(s), "appointments", "insert", {}, ok)
    /\ UNCHANGED <<profiles, modal, checks, detail, cashVars, userVars, otherVars, procedures,
                   patients>>

\* update of appointments (the request of updateStatus)
UpdateAppointmentRequest(s, id, status) ==
    /\ \E a \in appointments : a.id = id
    /\ appointments' = UpdateAppointmentStatus(SessionUser(s), id, status)
    /\ api' = Request(SessionUser(s), "appointments", "update", {},
                      \E a \in appointments :
                          /\ a.id = id
                          /\ RlsAppointmentSelect(SessionUser(s), a)
                          /\ RlsAppointmentUpdate(SessionUser(s), a))
    /\ UNCHANGED <<profiles, modal, checks, detail, cashVars, userVars, otherVars, procedures,
                   patients>>

\* select on cash_register_closings (loadClosings without its client-side filter)
SelectClosings(s) ==
    /\ api' = Request(SessionUser(s), "closings", "select",
                      Owners({c \in closings : RlsClosingSelect(SessionUser(s), c)}),
                      TRUE)
    /\ UNCHANGED <<profiles, agendaVars, cashVars, userVars, otherVars, procedures, patients>>

\* insert into cash_register_closings (the request of createClosing)
InsertClosingRequest(s, p, d) ==
    /\ RowCount < MaxRows
    /\ LET row == NewClosing(p, d)
           ok == InsertClosingAccepted(SessionUser(s), row)
       IN /\ closings' = IF ok THEN closings \cup {row} ELSE closings
          /\ api' = Request(SessionUser(s), "closings", "insert", {}, ok)
    /\ UNCHANGED <<profiles, agendaVars, transactions, selectedClosing, txList,
                   txLoading, op, last, userVars, otherVars, procedures, patients>>

\* update of cash_register_closings (the request of finalizeClosing)
UpdateClosingRequest(s, id, ts) ==
    /\ \E c \in closings : c.id = id
    /\ closings' = UpdateClosingFinalize(SessionUser(s), id, ts)
    /\ api' = Request(SessionUser(s), "closings", "update", {},
                      \E c \in closings : ClosingUpdatable(SessionUser(s), c, id))
    /\ UNCHANGED <<profiles, agendaVars, transactions, selectedClosing, txList,
                   txLoading, op, last, userVars, otherVars, procedures, patients>>

\* select on patients (loadPatients without its client-side filter)
SelectPatients(s) ==
    /\ api' = Request(SessionUser(s), "patients", "select",
                      Owners({r \in patients : RlsPatientSelect(SessionUser(s), r)}),
                      TRUE)
    /\ UNCHANGED <<profiles, agendaVars, cashVars, userVars, otherVars, procedures, patients>>

\* insert into patients (the request of CreatePatientModal.handleSubmit)
InsertPatientRequest(s, p) ==
    /\ RowCount < MaxRows
    /\ LET row == [id |-> NewId(patients), professional_id |-> p, phone |-> 0]
           ok == RlsPatientInsert(SessionUser(s), row)
       IN /\ patients' = IF ok THEN patients \cup {row} ELSE patients
          /\ api' = Request(SessionUser(s), "patients", "insert", {}, ok)
    /\ UNCHANGED <<profiles, agendaVars, cashVars, userVars, otherVars, procedures>>

\* update of a patients row: a new phone
UpdatePatientRequest(s, id) ==
    /\ \E r \in patients : r.id = id
    /\ LET uid == SessionUser(s)
           hit(r) == /\ r.id = id
                     /\ RlsPatientSelect(uid, r)
                     /\ RlsPatientUpdate(uid, r)
                     /\ RlsPatientUpdate(uid, [r EXCEPT !.phone = 1])
       IN /\ patients' = {IF hit(r) THEN [r EXCEPT !.phone = 1] ELSE r : r \in patients}
          /\ api' = Request(uid, "patients", "update", {}, \E r \in patients : hit(r))
    /\ UNCHANGED <<profiles, agendaVars, cashVars, userVars, otherVars, procedures>>

\* insert into procedures (the request of CreateProcedureModal.handleSubmit)
InsertProcedureRequest(s) ==
    /\ RowCount < MaxRows
    /\ LET row == [id |-> NewId(procedures), created_by |-> SessionUser(s)]
           ok == RlsProcedureWrite(SessionUser(s))
       IN /\ procedures' = IF ok THEN procedures \cup {row} ELSE procedures
          /\ api' = Request(SessionUser(s), "procedures", "insert", {}, ok)
    /\ UNCHANGED <<profiles, agendaVars, cashVars, userVars, otherVars, patients>>

\* The amounts a request can carry, in cents: the form's, and a negative one
RequestAmounts == (0 - 1)..MaxAmount

\* insert into cash_register_transactions (the first request of
\* AddTransactionModal.handleSubmit), with any amount
InsertTransactionRequest(s, id, amount) ==
    /\ Cardinality(transactions) < MaxTransactions
    /\ LET row == [id |-> NewId(transactions), closing_id |-> id, amount |-> amount]
           ok == InsertTransactionAccepted(SessionUser(s), row)
       IN /\ transactions' = IF ok THEN transactions \cup {row} ELSE transactions
          /\ api' = Request(SessionUser(s), "transactions", "insert", {}, ok)
    /\ UNCHANGED <<profiles, agendaVars, closings, selectedClosing, txList,
                   txLoading, op, last, userVars, otherVars, procedures, patients>>

\* ======================================================================
\*  Authentication: AuthProvider, Login, App of the followed browser
\* ======================================================================
\* useState initial values of AuthProvider
Unmounted == [user |-> "", session |-> "", profile |-> NoProfile, loading |-> TRUE]

\* supabase.auth with no stored session; stored: the session found in the
\* browser's storage at mount; pending: getSession() not yet resolved
NoClient == [session |-> "", stored |-> "", pending |-> TRUE]

\* Login and Layout at rest; result is what the last signIn returned
NoForm == [pc |-> "idle", result |-> "none"]

notAuth == <<profiles, agendaVars, cashVars, userVars, apiVars, calc, dash>>

\* A ProtectedRoute that does not ask for a profile
ProtectedRouteUserOnly(children, requireSuperAdmin) ==
    IF auth.loading THEN "Loader"
    ELSE IF auth.user = "" THEN "null"
    ELSE children

\* ProtectedRoute: what it renders around its children
ProtectedRoute(children, requireSuperAdmin) ==
    IF auth.loading THEN "Loader"
    ELSE IF auth.user = "" \/ auth.profile = NoProfile THEN "null"
    ELSE IF requireSuperAdmin /\ auth.profile.role # "super_admin" THEN "Denied"
    ELSE children

\* App.renderPage
renderPage(currentRoute) ==
    CASE currentRoute = "/dashboard" -> "Dashboard"
      [] currentRoute = "/usuarios" -> "Users"
      [] currentRoute = "/procedimentos" -> "Procedures"
      [] currentRoute = "/pacientes" -> "Patients"
      [] currentRoute = "/minha-agenda" -> "Agenda"
      [] currentRoute = "/agenda-geral" -> "Agenda"
      [] currentRoute = "/fechar-caixa" -> "CashRegister"
      [] currentRoute = "/fechamentos" -> "CashRegister"
      [] OTHER -> "Dashboard"

\* App: what is on the screen
App ==
    IF auth.loading THEN "Loader"
    ELSE IF auth.user = "" THEN "Login"
    ELSE ProtectedRoute(renderPage(route), FALSE)

Pages == {"Dashboard", "Users", "Procedures", "Patients", "Agenda", "CashRegister"}

\* Layout navItems: the paths of the menu, by isSuperAdmin of the context
navItems ==
    IF auth.profile.role = "super_admin"
       THEN {"/dashboard", "/agenda-geral", "/usuarios", "/procedimentos",
             "/pacientes", "/fechamentos"}
       ELSE {"/dashboard", "/minha-agenda", "/pacientes", "/fechar-caixa"}

\* Layout onClick={() => navigate(item.path)}
Navigate(path) ==
    /\ App \in Pages
    /\ path \in navItems
    /\ route' = path
    /\ UNCHANGED <<auth, client, loads, form>>
    /\ UNCHANGED notAuth

\* A loadProfile(uid) can be sent
LoadRoom(uid) == Load(uid, uid) \in loads \/ Cardinality(loads) < MaxLoads

\* supabase.auth.getSession().then(...)
GetSessionReturn ==
    /\ client.pending
    /\ client' = [client EXCEPT !.pending = FALSE]
    /\ IF client.stored # ""
          THEN /\ auth' = [auth EXCEPT !.session = client.stored,
                                       !.user = client.stored]
               /\ loads' = loads \cup {Load(client.stored, client.session)}
          ELSE /\ auth' = [auth EXCEPT !.session = "", !.user = "",
                                       !.loading = FALSE]
               /\ loads' = loads
    /\ UNCHANGED <<form, route>>
    /\ UNCHANGED notAuth

\* supabase.auth notifies the session it holds (initial session, token
\* refreshed) and the callback of onAuthStateChange runs
SessionChanged ==
    /\ client.session # ""
    /\ LoadRoom(client.session)
    /\ AuthStateChange(client.session)
    /\ UNCHANGED <<client, form, route>>
    /\ UNCHANGED notAuth

\* loadProfile: the datastore answers the select (maybeSingle) under the
\* token the request carries, or the request fails
LoadProfileQuery(l, fails) ==
    /\ l \in loads
    /\ l.pc = "sent"
    /\ LET rows == {p \in profiles :
                      p.id = l.userId /\ RlsProfileSelect(l.token # "")}
           data == IF fails \/ rows = {} THEN NoProfile ELSE CHOOSE p \in rows : TRUE
       IN loads' = (loads \ {l}) \cup {[l EXCEPT !.pc = "answered", !.data = data]}
    /\ UNCHANGED <<auth, client, form, route>>
    /\ UNCHANGED notAuth

\* A loadProfile without its finally block
FinallyNothing(a) == a

\* loadProfile: finally { setLoading(false) }
Finally(a) == [a EXCEPT !.loading = FALSE]

\* loadProfile after its await: setProfile(data) or setProfile(null), and
\* setLoading(false) in finally
LoadProfileReturn(l) ==
    /\ l \in loads
    /\ l.pc = "answered"
    /\ auth' = Finally([auth EXCEPT !.profile = l.data])
    /\ loads' = loads \ {l}
    /\ UNCHANGED <<client, form, route>>
    /\ UNCHANGED notAuth

\* A signIn that reports success whatever the provider answered
SignInResultNull(error) == "ok"

\* signIn: return { error }
SignInResult(error) == IF error THEN "error" ELSE "ok"

\* Login.handleSubmit -> signIn: supabase.auth.signInWithPassword with the
\* credentials of id, right (ok) or wrong
SignIn(id, ok) ==
    /\ App = "Login"
    /\ form.pc = "idle"
    /\ LoadRoom(id)
    /\ LET accepted == ok /\ id \in UserIdsUsed
       IN /\ IF accepted
                THEN /\ client' = [client EXCEPT !.session = id]
                     /\ AuthStateChange(id)
                ELSE UNCHANGED <<client, auth, loads>>
          /\ form' = [form EXCEPT !.result = SignInResult(~accepted)]
    /\ UNCHANGED route
    /\ UNCHANGED notAuth

\* Layout onClick={signOut}: await supabase.auth.signOut()
SignOutRequest ==
    /\ App \in Pages
    /\ form.pc = "idle"
    /\ client' = [client EXCEPT !.session = ""]
    /\ AuthStateChange("")
    /\ form' = [form EXCEPT !.pc = "signout"]
    /\ UNCHANGED route
    /\ UNCHANGED notAuth

\* signOut after its await: setProfile(null)
SignOutReturn ==
    /\ form.pc = "signout"
    /\ auth' = [auth EXCEPT !.profile = NoProfile]
    /\ form' = [form EXCEPT !.pc = "idle"]
    /\ UNCHANGED <<client, loads, route>>
    /\ UNCHANGED notAuth

\* ======================================================================
\*  Totals as the client computes them: JavaScript numbers
\* ======================================================================
\* t.amount and parseFloat(amount) are JavaScript numbers (IEEE 754 binary64)
\* and `sum + t.amount` is their addition, rounded to nearest, ties to even.
\* A number is held as a natural counted in units of 2^-FracBits, written as
\* its binary digits, least significant first, with no leading zero.

SignificandBits == 53
FracBits == 70

RECURSIVE NatBits(_)
NatBits(n) == IF n = 0 THEN <<>> ELSE <<n % 2>> \o NatBits(n \div 2)

\* b without its leading zeros
Trim(b) == SubSeq(b, 1, Max({0} \cup {i \in 1..Len(b) : b[i] = 1}))

ShiftLeft(b, k) == IF b = <<>> THEN <<>> ELSE [i \in 1..k |-> 0] \o b

BitAt(b, i) == IF i <= Len(b) THEN b[i] ELSE 0

\* the carry into digit i of a + b: some lower digit generates it and every
\* digit between passes it on
CarryInto(a, b, i) ==
    IF \E j \in 1..(i - 1) :
          /\ BitAt(a, j) + BitAt(b, j) = 2
          /\ \A k \in (j + 1)..(i - 1) : BitAt(a, k) + BitAt(b, k) >= 1
       THEN 1 ELSE 0

\* the exact sum of two naturals
AddBits(a, b) ==
    Trim([i \in 1..(Max({Len(a), Len(b)}) + 1) |->
            (BitAt(a, i) + BitAt(b, i) + CarryInto(a, b, i)) % 2])

\* 2^k modulo d, by repeated squaring
RECURSIVE Pow2Mod(_, _)
Pow2Mod(k, d) ==
    IF k = 0 THEN 1 % d
    ELSE IF k % 2 = 1 THEN (2 * Pow2Mod(k - 1, d)) % d
    ELSE LET h == Pow2Mod(k \div 2, d) IN (h * h) % d

\* the digit of weight 2^-k of the quotient cents / 100
QuotientBit(cents, k) ==
    IF k >= 0
       THEN IF (cents * Pow2Mod(k, 200)) % 200 >= 100 THEN 1 ELSE 0
       ELSE (cents \div (100 * 2^(0 - k))) % 2

\* Rounding of an exact value to the 53 significant digits a number holds:
\* to nearest, ties to even; sticky tells that the exact value lies above b
RoundToNearestEven(b, sticky) ==
    IF Len(b) <= SignificandBits THEN b
    ELSE LET cut == Len(b) - SignificandBits
             keep == SubSeq(b, cut + 1, Len(b))
             above == sticky \/ \E i \in 1..(cut - 1) : b[i] = 1
             up == b[cut] = 1 /\ (above \/ keep[1] = 1)
         IN ShiftLeft(IF up THEN AddBits(keep, <<1>>) ELSE keep, cut)

\* parseFloat("0.06"), and the reading of a numeric(10,2) column from the
\* JSON answer: the number nearest to cents / 100
parseFloat(cents) ==
    LET n == FracBits + Len(NatBits(cents))
        quotient == [i \in 1..n |-> QuotientBit(cents, FracBits - i + 1)]
        exact == (cents * Pow2Mod(FracBits, 100)) % 100 = 0
    IN RoundToNearestEven(Trim(quotient), ~exact)

\* x + y of two numbers
NumberAdd(x, y) == RoundToNearestEven(AddBits(x, y), FALSE)

\* No sum under way; a sum over the amounts read (cents as stored), the
\* callbacks of reduce run so far, and the accumulator
NoCalc == [amounts |-> <<>>, done |-> 0, total |-> <<>>, added |-> FALSE]

\* One callback of reduce: sum + t.amount
ReduceStep ==
    /\ calc.done < Len(calc.amounts)
    /\ ~calc.added
    /\ calc' = [calc EXCEPT !.done = @ + 1,
                            !.total = NumberAdd(@, parseFloat(calc.amounts[calc.done + 1]))]
    /\ UNCHANGED <<profiles, agendaVars, cashVars, userVars, apiVars, authVars, dash>>

\* AddTransactionModal.handleSubmit: ... + parseFloat(amount), the amount
\* typed being the one of the row read last
AddTyped ==
    /\ calc.done = Len(calc.amounts)
    /\ calc.done > 0
    /\ ~calc.added
    /\ calc' = [calc EXCEPT !.added = TRUE,
                            !.total = NumberAdd(@, parseFloat(calc.amounts[calc.done]))]
    /\ UNCHANGED <<profiles, agendaVars, cashVars, userVars, apiVars, authVars, dash>>

\* ======================================================================
\*  Dashboard: loadTopProcedures
\* ======================================================================
\* .slice(0, 5)
TopCount == 5

Range(seq) == {seq[i] : i \in DOMAIN seq}

\* procedureCounts: for each procedure_id read, the number of rows with it
procedureCounts(rows) ==
    [id \in Range(rows) |-> Cardinality({i \in DOMAIN rows : rows[i] = id})]

\* Object.entries(procedureCounts): the keys in the order they were first
\* inserted, that is, first met among the first n rows
RECURSIVE Entries(_, _)
Entries(rows, n) ==
    IF n = 0 THEN <<>>
    ELSE LET before == Entries(rows, n - 1)
         IN IF rows[n] \in Range(before) THEN before ELSE Append(before, rows[n])

\* .sort(([, a], [, b]) => b - a): by count, largest first, entries with
\* equal counts keeping their order
SortByCount(entries, counts) ==
    LET Pos(id) == CHOOSE i \in DOMAIN entries : entries[i] = id
        Rank(id) == 1 + Cardinality({other \in Range(entries) :
                            \/ counts[other] > counts[id]
                            \/ counts[other] = counts[id] /\ Pos(other) < Pos(id)})
    IN [k \in DOMAIN entries |-> CHOOSE id \in Range(entries) : Rank(id) = k]

\* topProcedureIds
topProcedureIds(rows) ==
    LET sorted == SortByCount(Entries(rows, Len(rows)), procedureCounts(rows))
    IN SubSeq(sorted, 1, IF Len(sorted) < TopCount THEN Len(sorted) ELSE TopCount)

\* The orders in which a select without ORDER BY can return the rows of ids
RECURSIVE Orders(_)
Orders(ids) ==
    IF ids = {} THEN {<<>>}
    ELSE UNION {{<<id>> \o rest : rest \in Orders(ids \ {id})} : id \in ids}

\* Dashboard before loadTopProcedures ran: rows is the answer of the
\* appointments query (procedure_id of each completed appointment)
NoDash == [rows |-> <<>>, topProcedures |-> <<>>, loaded |-> FALSE]

\* loadTopProcedures: the counts, the five ids, the procedures query
\* .in('id', topProcedureIds) answered in the order `answer`, and topProcs
loadTopProcedures(answer) ==
    /\ ~dash.loaded
    /\ answer \in Orders(Range(topProcedureIds(dash.rows)))
    /\ dash' = [dash EXCEPT
                 !.loaded = TRUE,
                 !.topProcedures =
                     [i \in DOMAIN answer |->
                        [id |-> answer[i],
                         count |-> procedureCounts(dash.rows)[answer[i]]]]]
    /\ UNCHANGED <<profiles, agendaVars, cashVars, userVars, apiVars, calc, authVars>>

\* ======================================================================
\*  Specifications
\* ======================================================================

\* The profiles of the installation: two professionals and one super admin
InitialProfiles ==
    {[id |-> "A", email |-> 1, role |-> "user"],
     [id |-> "B", email |-> 2, role |-> "user"],
     [id |-> "S", email |-> 3, role |-> "super_admin"]}

\* Their identities
InitialUsers == {[id |-> p.id, email |-> p.email] : p \in InitialProfiles}

\* No row in the tables of the clinic, no component mounted
Blank ==
    /\ appointments = {}
    /\ closings = {}
    /\ transactions = {}
    /\ modal = [s \in Sessions |-> ClosedModal]
    /\ checks = [s \in Sessions |-> {}]
    /\ detail = [s \in Sessions |-> NoAppointment]
    /\ selectedClosing = [s \in Sessions |-> NoClosing]
    /\ txList = [s \in Sessions |-> <<>>]
    /\ txLoading = [s \in Sessions |-> FALSE]
    /\ op = [s \in Sessions |-> Idle]
    /\ last = [s \in Sessions |-> NoOutcome]
    /\ reg = [s \in Sessions |-> NoReg]
    /\ procedures = {}
    /\ patients = {}
    /\ api = NoRequest

\* The followed browser before AuthProvider mounts, with no stored session
BlankAuth ==
    /\ auth = Unmounted
    /\ client = NoClient
    /\ loads = {}
    /\ form = NoForm
    /\ route = "/dashboard"

\* No total is being summed
BlankOther ==
    /\ calc = NoCalc
    /\ BlankAuth
    /\ dash = NoDash

\* The clinic in use
Init ==
    /\ profiles = InitialProfiles
    /\ users = InitialUsers
    /\ Blank
    /\ BlankOther

\* A fresh installation: nobody has signed up
InstallInit ==
    /\ profiles = {}
    /\ users = {}
    /\ Blank
    /\ BlankOther

AgendaNext ==
    \/ \E s \in AgendaSessions, p \in Professionals, d \in Dates : OpenCreateModal(s, p, d)
    \/ \E s \in AgendaSessions, p \in Professionals, d \in Dates, t \in Times :
          ChangeSlot(s, p, d, t)
    \/ \E s \in AgendaSessions : \E c \in checks[s] : CheckConflictQuery(s, c)
    \/ \E s \in AgendaSessions : \E c \in checks[s] : CheckConflictReturn(s, c)
    \/ \E s \in AgendaSessions : HandleSubmit(s)
    \/ \E s \in AgendaSessions : InsertAppointment(s)
    \/ \E s \in AgendaSessions : CloseCreateModal(s)
    \/ \E s \in AgendaSessions : \E a \in appointments : OpenDetails(s, a)
    \/ \E s \in AgendaSessions, st \in Statuses : UpdateStatus(s, st)
    \/ \E s \in AgendaSessions : CloseDetails(s)

\* One step of the cash register by a session of S
CashNextOf(S) ==
    \/ \E s \in S, d \in Dates : CreateClosingQuery(s, d)
    \/ \E s \in S : CreateClosingInsert(s)
    \/ \E s \in S : \E c \in closings : OpenClosing(s, c)
    \/ \E s \in S : LoadTransactions(s)
    \/ \E s \in S : CloseTransactions(s)
    \/ \E s \in S, a \in Amounts : AddInsert(s, a)
    \/ \E s \in S : AddSelect(s)
    \/ \E s \in S : AddUpdate(s)
    \/ \E s \in S, i \in 1..MaxTransactions : DeleteTransaction(s, i)
    \/ \E s \in S : UpdateTotal(s)
    \/ \E s \in S, ts \in Stamps : FinalizeClosing(s, ts)

CashNext == CashNextOf(CashSessions)

OwnerNext == CashNextOf(OwnerSessions)

\* Sign-up, and the user forms of the super admin
UserNext ==
    \/ \E s \in SignUpSessions, e \in Emails, b \in BOOLEAN : SignUpAuth(s, e, b)
    \/ \E s \in SignUpSessions : SignUpCount(s)
    \/ \E s \in SignUpSessions : SignUpInsert(s)
    \/ \E s \in SignUpSessions, id \in UserIds, e \in Emails, r \in Roles :
          CreateUserAuth(s, id, e, r)
    \/ \E s \in SignUpSessions : CreateUserInsert(s)
    \/ \E s \in SignUpSessions, id \in UserIds, e \in Emails, r \in Roles :
          EditUser(s, id, e, r)

\* The agenda: booking and status changes
Spec == Init /\ [][AgendaNext]_vars

\* The cash register: closings and their transactions
CashSpec == Init /\ [][CashNext]_vars

\* The cash register used from two sessions of one professional
OwnerSpec == Init /\ [][OwnerNext]_vars

\* Requests of any caller against the policies
RlsNext ==
    \/ \E s \in ApiSessions : SelectAppointments(s)
    \/ \E s \in ApiSessions, p \in Professionals, d \in Dates, t \in Times :
          InsertAppointmentRequest(s, p, d, t)
    \/ \E s \in ApiSessions, st \in Statuses : \E a \in appointments :
          UpdateAppointmentRequest(s, a.id, st)
    \/ \E s \in ApiSessions : SelectClosings(s)
    \/ \E s \in ApiSessions, p \in Professionals, d \in Dates :
          InsertClosingRequest(s, p, d)
    \/ \E s \in ApiSessions, ts \in Stamps : \E c \in closings :
          UpdateClosingRequest(s, c.id, ts)
    \/ \E s \in ApiSessions : SelectPatients(s)
    \/ \E s \in ApiSessions, p \in Professionals : InsertPatientRequest(s, p)
    \/ \E s \in ApiSessions : \E r \in patients : UpdatePatientRequest(s, r.id)
    \/ \E s \in ApiSessions : InsertProcedureRequest(s)
    \/ \E s \in ApiSessions, a \in RequestAmounts : \E c \in closings :
          InsertTransactionRequest(s, c.id, a)

\* Row-level security: every table under requests of every caller
RlsSpec == Init /\ [][RlsNext]_vars

\* The amounts read for a sum: up to MaxTerms rows of 0..MaxCents cents
SumInit ==
    /\ profiles = InitialProfiles
    /\ users = InitialUsers
    /\ Blank
    /\ \E n \in 0..MaxTerms : \E a \in [1..n -> 0..MaxCents] :
          calc = [NoCalc EXCEPT !.amounts = a]
    /\ BlankAuth
    /\ dash = NoDash

SumNext ==
    \/ ReduceStep
    \/ AddTyped

SumSpec == SumInit /\ [][SumNext]_vars

\* The followed browser opens the application: A and S have signed up, B has
\* not; A's profile shows the e-mail A signed up with or one A saved later
\* in EditUserModal; the browser holds no session, or one of A or of S
\* stored earlier
AuthInit ==
    /\ \E e \in Emails :
          profiles = {IF p.id = "A" THEN [p EXCEPT !.email = e] ELSE p :
                        p \in {q \in InitialProfiles : q.id # "B"}}
    /\ users = {u \in InitialUsers : u.id # "B"}
    /\ Blank
    /\ calc = NoCalc
    /\ auth = Unmounted
    /\ \E u \in {"", "A", "S"} : client = [NoClient EXCEPT !.session = u, !.stored = u]
    /\ loads = {}
    /\ form = NoForm
    /\ route = "/dashboard"
    /\ dash = NoDash

AuthNext ==
    \/ GetSessionReturn
    \/ SessionChanged
    \/ \E l \in loads, fails \in BOOLEAN : LoadProfileQuery(l, fails)
    \/ \E l \in loads : LoadProfileReturn(l)
    \/ \E id \in UserIds, ok \in BOOLEAN : SignIn(id, ok)
    \/ SignOutRequest
    \/ SignOutReturn
    \/ \E path \in navItems : Navigate(path)
    \/ \E e \in Emails, b \in BOOLEAN : App = "Login" /\ SignUpAuth(Browser, e, b)
    \/ SignUpCount(Browser)
    \/ SignUpInsert(Browser)

AuthSpec == AuthInit /\ [][AuthNext]_vars

\* The Dashboard mounts: the appointments query answers with up to
\* MaxCompleted rows over MaxProcedures procedures, the procedures being
\* numbered in the order in which they are first met in the answer
TopInit ==
    /\ profiles = InitialProfiles
    /\ users = InitialUsers
    /\ Blank
    /\ calc = NoCalc
    /\ BlankAuth
    /\ \E n \in 0..MaxCompleted : \E rows \in [1..n -> 1..MaxProcedures] :
          /\ \A i \in 1..n : \A id \in 1..(rows[i] - 1) : \E j \in 1..(i - 1) : rows[j] = id
          /\ dash = [NoDash EXCEPT !.rows = rows]

TopNext ==
    \E answer \in Orders(Range(topProcedureIds(dash.rows))) : loadTopProcedures(answer)

TopSpec == TopInit /\ [][TopNext]_vars

\* Every request of AuthProvider is answered: getSession resolves, the
\* datastore answers each loadProfile query, and each answer is handled
AuthLiveSpec ==
    /\ AuthSpec
    /\ WF_vars(GetSessionReturn)
    /\ WF_vars(\E l \in loads, fails \in BOOLEAN : LoadProfileQuery(l, fails))
    /\ WF_vars(\E l \in loads : LoadProfileReturn(l))

\* Accounts: sign-up on a fresh installation and the user forms
UserSpec == InstallInit /\ [][UserNext]_vars

\* ======================================================================
\*  Claims
\* ======================================================================

\* The slot a form is set to
SlotOf(m) == <<m.professionalId, m.appointmentDate, m.appointmentTime>>

RowSlot(a) == <<a.professional_id, a.appointment_date, a.appointment_time>>

\* A non-cancelled appointment holds the slot
SlotHeld(slot) == \E a \in appointments : RowSlot(a) = slot /\ a.status # "cancelled"

\* Session s takes the insert step of handleSubmit
InsertStep(s) == modal[s].open /\ modal[s].loading /\ ~modal'[s].loading

\* C1: of the creations attempted for one slot that no non-cancelled
\* appointment holds, exactly one succeeds and every other is rejected: an
\* insert that follows a passed pre-check succeeds when the slot is not held,
\* and is rejected when it is held, whatever the interleaving.
C1_OneSuccessOneConflict ==
    [][\A s \in AgendaSessions :
          InsertStep(s) =>
              (modal'[s].outcome = "ok" <=> ~SlotHeld(SlotOf(modal[s])))]_vars

\* C2: at most one closing row exists per (professional_id, closing_date); a
\* createClosing call that ended was either the one that created the closing
\* of its (professional, date) or was refused because that closing exists, and
\* no two sessions both created it.
C2_OneClosingPerDay ==
    /\ \A c1, c2 \in closings :
          (c1.professional_id = c2.professional_id /\ c1.closing_date = c2.closing_date)
              => c1 = c2
    /\ \A s \in Sessions :
          (last[s].kind = "create" /\ last[s].outcome # "none") =>
              \E c \in closings :
                  /\ c.professional_id = SessionUser(s)
                  /\ c.closing_date = last[s].closing_date
                  /\ last[s].outcome = "ok" => c.id = last[s].closing_id
    /\ \A s1, s2 \in Sessions :
          (/\ s1 # s2
           /\ SessionUser(s1) = SessionUser(s2)
           /\ last[s1].kind = "create" /\ last[s2].kind = "create"
           /\ last[s1].closing_date = last[s2].closing_date
           /\ last[s1].outcome = "ok")
              => last[s2].outcome # "ok"

\* C2 witness: two sessions both passed the existence query for one day; one
\* created the closing and the other was refused by the datastore.
C2_Witness ==
    /\ last["a1"].kind = "create" /\ last["a1"].outcome = "ok"
    /\ last["a2"].kind = "create" /\ last["a2"].outcome = "error"
    /\ last["a1"].closing_date = last["a2"].closing_date

\* No handler of a session is between two requests on closing id
Quiescent(id) ==
    \A s \in Sessions : op[s].pc # "idle" => selectedClosing[s].id # id

TransactionsOf(id) == {t \in transactions : t.closing_id = id}

\* C3: whenever no add or delete is in progress on an open closing, its
\* total_amount is the sum of the amounts of its stored transactions.
C3_TotalIsSum ==
    \A c \in closings :
        (~c.is_finalized /\ Quiescent(c.id)) =>
            c.total_amount = SumAmounts(TransactionsOf(c.id))

\* C4: a delete-transaction call made on a closing that is stored finalized
\* ends in the error branch, removes no transaction row and leaves the
\* closings (their total_amount) as they were.
C4_DeleteOnFinalizedFails ==
    [][\A s \in Sessions :
          (/\ DbFinalized(selectedClosing[s].id)
           /\ \/ op[s].pc = "idle" /\ op'[s].pc = "del_update"
              \/ op[s].pc = "del_update" /\ op'[s].pc = "idle")
              => /\ op'[s].pc # "del_update"
                 /\ last'[s].outcome = "error"
                 /\ transactions' = transactions
                 /\ closings' = closings]_vars

\* C5: while a closing is stored finalized no add-transaction request for it
\* is accepted: no transaction row is inserted and its total_amount is not
\* written, whichever session asks.
C5_AddOnFinalizedRejected ==
    [][\A s \in Sessions :
          DbFinalized(selectedClosing[s].id) =>
              /\ ~(op[s].pc = "idle" /\ op'[s].pc = "add_select")
              /\ (op[s].pc = "add_update" /\ op'[s].pc = "idle")
                    => closings' = closings]_vars

\* C6: a closing that is finalized is finalized in every later state: no step
\* of any session takes is_finalized from true to false.
C6_FinalizedStaysFinalized ==
    [][\A c \in closings :
          c.is_finalized => \E c2 \in closings' : c2.id = c.id /\ c2.is_finalized]_vars

\* C6 witness: a handler (add, delete with its updateTotal, or finalize) ran
\* to its end on a closing that was already stored finalized, and the closing
\* is finalized.
C6_Witness ==
    \E s \in Sessions : \E c \in closings :
        /\ last[s].kind \in {"add", "delete", "finalize"}
        /\ last[s].outcome = "ok"
        /\ last[s].onFinalized
        /\ last[s].closing_id = c.id
        /\ c.is_finalized

\* The forward-only relation of the appointment lifecycle
ForwardOnly ==
    {<<"scheduled", "confirmed">>, <<"scheduled", "cancelled">>,
     <<"confirmed", "completed">>, <<"confirmed", "cancelled">>}

\* C7: every change of a stored status is one of scheduled -> confirmed,
\* scheduled -> cancelled, confirmed -> completed, confirmed -> cancelled.
C7_StatusMovesForward ==
    [][\A a \in appointments : \A b \in appointments' :
          (a.id = b.id /\ a.status # b.status)
              => <<a.status, b.status>> \in ForwardOnly]_vars

\* C8: completed and cancelled are terminal: a stored status that is
\* completed or cancelled is never changed by a step of any session.
C8_TerminalStatuses ==
    [][\A a \in appointments : \A b \in appointments' :
          (a.id = b.id /\ a.status \in {"completed", "cancelled"})
              => b.status = a.status]_vars

\* A row of professional p is stored at (d, t)
ProfessionalHasRow(slot) == \E a \in appointments : RowSlot(a) = slot

\* C9: the conflict is scoped per professional. A pre-check answers
\* "conflict" only when a row of the same professional is stored at the slot;
\* an insert for a slot that a non-cancelled appointment of the same
\* professional holds is rejected; and an insert for a professional who has
\* no row at the slot succeeds, whatever rows other professionals have at
\* that date and time.
C9_ConflictPerProfessional ==
    /\ [](\A s \in AgendaSessions : \A c \in checks[s] :
            c.res = "conflict" => ProfessionalHasRow(SlotOf(c)))
    /\ [][\A s \in AgendaSessions :
            InsertStep(s) =>
                /\ SlotHeld(SlotOf(modal[s])) => modal'[s].outcome = "error"
                /\ ~ProfessionalHasRow(SlotOf(modal[s])) => modal'[s].outcome = "ok"]_vars

\* C9 witness: A holds a non-cancelled appointment at a date and time, B got
\* one at the same date and time after A's was stored, and a booking for A at
\* that slot has just been refused.
C9_Witness ==
    \E a, b \in appointments : \E s \in AgendaSessions :
        /\ a.professional_id = "A" /\ b.professional_id = "B"
        /\ a.appointment_date = b.appointment_date
        /\ a.appointment_time = b.appointment_time
        /\ a.status # "cancelled"
        /\ b.id > a.id
        /\ modal[s].open /\ modal[s].outcome \in {"error", "conflict"}
        /\ SlotOf(modal[s]) = RowSlot(a)

\* C10: with no write in between, the pre-check reports a conflict for a
\* slot exactly when the insert for that slot would be refused by the
\* uniqueness constraint; so a slot whose only row is cancelled is bookable.
C10_PreCheckAgreesWithConstraint ==
    \A s \in AgendaSessions : \A p \in DefaultProfessionals(s) :
        \A d \in Dates : \A t \in Times :
            PreCheckConflict(SessionUser(s), p, d, t)
                <=> AppointmentUniqueViolation(appointments,
                        [professional_id |-> p, appointment_date |-> d,
                         appointment_time |-> t])

\* C11: at most one appointment row is stored per (professional_id,
\* appointment_date, appointment_time), whatever the statuses of the rows,
\* after any creations and status changes.
C11_OneRowPerSlot ==
    \A a, b \in appointments : RowSlot(a) = RowSlot(b) => a = b

\* C11 witness: a slot holds a cancelled row, and an insert for that slot,
\* sent after a pre-check that reported no conflict, has been refused.
C11_Witness ==
    \E a \in appointments : \E s \in AgendaSessions :
        /\ a.status = "cancelled"
        /\ modal[s].open /\ modal[s].outcome = "error"
        /\ SlotOf(modal[s]) = RowSlot(a)
        /\ Cardinality(appointments) = 1

\* C12: the total_amount an add-transaction computes is the sum of the
\* amounts of the transactions stored for the closing when it reads them
\* back after its insert, each counted once.
C12_AddWritesSumOfStored ==
    [][\A s \in Sessions :
          (op[s].pc = "add_select" /\ op'[s].pc = "add_update")
              => op'[s].total = SumAmounts(TransactionsOf(selectedClosing[s].id))]_vars

\* The closing is stored open
DbOpen(id) == \E c \in closings : c.id = id /\ ~c.is_finalized

\* C13: deleting transaction T of an open closing removes T, and the
\* total_amount then written is the sum of the amounts of the transactions
\* that remain stored for the closing.
C13_DeleteWritesSumOfRemaining ==
    [][\A s \in Sessions :
          /\ (DbOpen(selectedClosing[s].id)
                /\ op[s].pc = "idle" /\ op'[s].pc = "del_update")
                => \E t \in transactions : transactions' = transactions \ {t}
          /\ (DbOpen(selectedClosing[s].id)
                /\ op[s].pc = "del_update" /\ op'[s].pc = "idle")
                => \A c \in closings' :
                      c.id = selectedClosing[s].id
                          => c.total_amount = SumAmounts(TransactionsOf(c.id))]_vars

\* C14: a finalize request changes nothing on a closing that is stored
\* finalized: finalized_at, once stamped, keeps its value.
C14_FinalizedAtStampedOnce ==
    [][\A c \in closings : \A c2 \in closings' :
          (c2.id = c.id /\ c.is_finalized) => c2.finalized_at = c.finalized_at]_vars

\* C15: a closing that createClosing stores starts empty: total_amount 0,
\* not finalized, finalized_at unset, and no transaction belongs to it.
C15_NewClosingIsEmpty ==
    [][\A c \in closings' :
          (\A c0 \in closings : c0.id # c.id)
              => /\ c.total_amount = 0
                 /\ ~c.is_finalized
                 /\ c.finalized_at = 0
                 /\ \A t \in transactions' : t.closing_id # c.id]_vars

\* C15 witness: createClosing has just stored a closing and opened its
\* transactions modal.
C15_Witness ==
    \E s \in Sessions : \E c \in closings :
        /\ last[s].kind = "create" /\ last[s].outcome = "ok"
        /\ last[s].closing_id = c.id
        /\ selectedClosing[s].id = c.id
        /\ txLoading[s]

\* C16: a user mutation that ended in an error left nothing of itself in
\* the datastore: after signUp or CreateUserModal.handleSubmit ends in its
\* error branch, the identity it asked for is not stored.
C16_NoPartialSuccess ==
    \A s \in Sessions :
        (/\ reg[s].pc = "idle"
         /\ reg[s].kind \in {"signup", "create"}
         /\ reg[s].outcome = "error")
            => reg[s].id \notin UserIdsUsed

\* Session s got its profile through signUp
SignedUp(s) ==
    reg[s].pc = "idle" /\ reg[s].kind = "signup" /\ reg[s].outcome = "ok"

\* C17: of the profiles created through signUp at most one, the first, has
\* role super_admin; two sign-ups never both yield a super_admin.
C17_OnlyFirstSignUpIsSuperAdmin ==
    \A s1, s2 \in SignUpSessions :
        (s1 # s2 /\ SignedUp(s1) /\ SignedUp(s2))
            => ~(reg[s1].role = "super_admin" /\ reg[s2].role = "super_admin")

\* C18: every identity that no handler is still creating has exactly one
\* profile row.
C18_OneProfilePerIdentity ==
    \A u \in users :
        (\A s \in Sessions : reg[s].pc # "idle" => reg[s].id # u.id)
            => Cardinality({p \in profiles : p.id = u.id}) = 1

\* Rows of a table that belong to another professional than uid
OthersRows(rows, uid) == {r \in rows : r.professional_id # uid}

\* A request has just been answered
Answered == api' # api

\* C19: patients, appointments and closings are scoped to one professional.
\* A select by a caller with role user returns only rows of the caller; a
\* request by such a caller leaves the rows of every other professional as
\* they were and stores no row for another professional; and the lists the
\* pages load for such a caller hold only the caller's rows.
C19_ScopedToProfessional ==
    /\ []((api.kind = "select" /\ ~IsSuperAdminUid(api.caller))
            => api.seen \subseteq {api.caller})
    /\ [](\A s \in Sessions :
            ~isSuperAdmin(s) =>
                /\ Owners(VisibleAppointments(s)) \subseteq {SessionUser(s)}
                /\ Owners(VisibleClosings(s)) \subseteq {SessionUser(s)})
    /\ [][(Answered /\ ~IsSuperAdminUid(api'.caller)) =>
            /\ OthersRows(appointments', api'.caller) = OthersRows(appointments, api'.caller)
            /\ OthersRows(closings', api'.caller) = OthersRows(closings, api'.caller)
            /\ OthersRows(patients', api'.caller) = OthersRows(patients, api'.caller)]_vars

\* C19 witness: a closing of B is stored open, and A's request to update it
\* has just been answered without touching it.
C19_Witness ==
    /\ api.caller = "A" /\ api.table = "closings" /\ api.kind = "update"
    /\ ~api.accepted
    /\ \E c \in closings : c.professional_id = "B" /\ ~c.is_finalized
    /\ \A c \in closings : c.professional_id # "A"

\* C20: a procedures row is stored only by a caller whose role is
\* super_admin: a create request of a caller with role user is refused and
\* leaves the procedures as they were.
C20_ProceduresBySuperAdminOnly ==
    /\ [](\A r \in procedures : IsSuperAdminUid(r.created_by))
    /\ [][((procedures' # procedures)
              => (api'.table = "procedures" /\ IsSuperAdminUid(api'.caller)))
          /\ ((Answered /\ api'.table = "procedures" /\ ~IsSuperAdminUid(api'.caller))
              => (~api'.accepted /\ procedures' = procedures))]_vars

\* C20 witness: the super admin has created a procedure, and a create
\* request of professional A has just been refused.
C20_Witness ==
    /\ api.caller = "A" /\ api.table = "procedures" /\ api.kind = "insert"
    /\ ~api.accepted
    /\ procedures # {}

\* C21: a mutation of the cash register that the datastore does not apply
\* ends with an error shown to the session that asked for it: a delete
\* request that removes no row, a total_amount update that changes no
\* closing although the value differs, and a finalize request that changes
\* no closing each leave the handler's outcome at "error".
C21_RejectedMutationShowsError ==
    [][\A s \in Sessions :
          /\ (op[s].pc = "idle" /\ op'[s].pc = "del_update"
                 /\ transactions' = transactions)
                => last'[s].outcome = "error"
          /\ (op[s].pc = "del_update" /\ op'[s].pc = "idle"
                 /\ closings' = closings
                 /\ \E c \in closings : /\ c.id = selectedClosing[s].id
                                        /\ c.total_amount # UpdateTotalValue(txList[s]))
                => last'[s].outcome = "error"
          /\ (last'[s].kind = "finalize" /\ last'[s] # last[s]
                 /\ closings' = closings)
                => last'[s].outcome = "error"]_vars

\* C22: every stored cash-register transaction has amount >= 0.
C22_AmountNonNegative ==
    \A t \in transactions : t.amount >= 0

\* C22 witness: the super admin, whom the insert policy always admits, sent
\* an insert that was refused (its amount was negative) while transactions
\* are stored.
C22_Witness ==
    /\ api.caller = "S" /\ api.table = "transactions" /\ api.kind = "insert"
    /\ ~api.accepted
    /\ transactions # {}

\* The exact decimal sum, in cents, of what a sum has added so far
RECURSIVE CentsOf(_, _)
CentsOf(amounts, n) == IF n = 0 THEN 0 ELSE amounts[n] + CentsOf(amounts, n - 1)

ExactCents ==
    CentsOf(calc.amounts, calc.done)
        + (IF calc.added THEN calc.amounts[calc.done] ELSE 0)

\* C23: the total a handler computes is the exact two-digit decimal sum of
\* the amounts it added: at every point of the summation the accumulator is
\* the number that the decimal sum of the amounts added so far denotes.
C23_TotalIsExactDecimal ==
    calc.total = parseFloat(ExactCents)

\* C24: signIn and signUp end with a value. A signIn returns an error exactly
\* when the provider refused the credentials, and then user, session and
\* profile of AuthProvider and the session of the browser are as before; it
\* returns no error exactly when a session was established. A signUp returns
\* an error when the provider refused it or the profile insert was rejected
\* (no row is stored by that step), and no error when the profile row was
\* inserted.
C24_OutcomesAreValues ==
    [][/\ (form'.result # form.result /\ form'.result = "error")
            => (auth' = auth /\ client' = client)
       /\ (form'.result # form.result /\ form'.result = "ok")
            => (client'.session \in UserIdsUsed /\ auth'.user = client'.session)
       /\ (reg' = reg /\ form'.pc = "idle" /\ form.pc = "idle"
              /\ client'.session # client.session)
            => form'.result = "ok"
       /\ (reg'[Browser] # reg[Browser] /\ reg'[Browser].pc = "idle")
            => /\ reg'[Browser].outcome \in {"ok", "error"}
               /\ reg'[Browser].outcome = "error"
                     <=> (users' = users /\ profiles' = profiles)]_vars

\* C24 witness: the last signIn of the browser was refused, and its signUp
\* ended in an error after the identity had been created (the profile
\* insert was rejected).
C24_Witness ==
    /\ form.result = "error"
    /\ reg[Browser].kind = "signup" /\ reg[Browser].outcome = "error"
    /\ SessionUser(Browser) \in UserIdsUsed

\* C25: whenever AuthProvider holds a profile it holds a user, and the
\* profile is that user's.
C25_ProfileBelongsToUser ==
    auth.profile # NoProfile => (auth.user # "" /\ auth.profile.id = auth.user)

\* C26: when handleSubmit of the appointment form decides (it issues the
\* insert, or refuses with the conflict message), no pre-check of the form is
\* still unanswered or undelivered, and the conflict flag it reads was set by
\* the answer to the pre-check of the professional, date and time now
\* selected.
C26_SubmitUsesCurrentPreCheck ==
    [][\A s \in Sessions :
          (/\ modal[s].open /\ ~modal[s].loading
           /\ \/ modal'[s].loading
              \/ modal'[s].outcome = "conflict" /\ modal'[s] # modal[s])
              => /\ checks[s] = {}
                 /\ modal[s].checked = SlotOf(modal[s])]_vars

\* C27: a page inside Layout is on the screen only while loading is false and
\* AuthProvider holds a user and a profile; while loading is true the screen
\* is the loading indicator, and with loading false and no user it is Login.
C27_ProtectedContentNeedsProfile ==
    /\ App \in Pages =>
          (~auth.loading /\ auth.user # "" /\ auth.profile # NoProfile)
    /\ auth.loading => App = "Loader"
    /\ (~auth.loading /\ auth.user = "") => App = "Login"

\* C27 witness: a signed-in professional with a loaded profile has a page
\* reached through the menu on the screen.
C27_Witness ==
    /\ App \in Pages
    /\ auth.profile.role = "user"
    /\ route = "/pacientes"

\* C28: the pages the menu marks superAdminOnly (Users at /usuarios, the
\* closings at /fechamentos) are on the screen only for a profile whose role
\* is super_admin.
C28_AdminPagesForSuperAdminOnly ==
    (App \in Pages /\ route \in {"/usuarios", "/fechamentos"})
        => auth.profile.role = "super_admin"

\* C29: after AuthProvider mounts, loading eventually becomes false and is
\* false from then on.
C29_LoadingEnds ==
    <>[](~auth.loading)

\* C29 witness: loading has ended for a signed-in user whose profile load
\* found no row or failed, with no request left in flight.
C29_Witness ==
    /\ ~auth.loading
    /\ auth.user # "" /\ auth.profile = NoProfile
    /\ loads = {} /\ ~client.pending

\* C30: the list loadTopProcedures yields has at most 5 entries, as many as
\* there are procedures with completed appointments up to 5; no procedure
\* left out has more completed appointments than one listed; each entry's
\* count is that procedure's number of completed appointments; and the
\* entries are in descending order of count.
C30_TopProceduresRanked ==
    dash.loaded =>
        LET top == dash.topProcedures
            counts == procedureCounts(dash.rows)
            listed == {top[i].id : i \in DOMAIN top}
        IN /\ Len(top) <= TopCount
           /\ Cardinality(listed) = Len(top)
           /\ Len(top) = TopCount \/ listed = DOMAIN counts
           /\ \A i \in DOMAIN top : top[i].count = counts[top[i].id]
           /\ \A id \in DOMAIN counts \ listed :
                 \A i \in DOMAIN top : top[i].count >= counts[id]
           /\ \A i, j \in DOMAIN top : i < j => top[i].count >= top[j].count
====
